---- MODULE Spec2Model ----
(***************************************************************************)
(* Camera-session lifecycle of the QRScanner component                      *)
(* (src/src/components/QRScanner.tsx).                                      *)
(*                                                                          *)
(* The component state is the four useState cells and the scannerRef.  The  *)
(* Html5Qrcode engine is the environment: it is modelled by its scanning    *)
(* state, its single in-flight state transition and the promise a caller    *)
(* is suspended on.  One action is one run-to-completion step of the        *)
(* JavaScript event loop: a handler runs from its entry (or from the await  *)
(* it was suspended on) to its next await or to its end.                    *)
(* A state setter called after unmount still assigns its cell, as written   *)
(* in the source; no button is rendered once the component is unmounted.    *)
(***************************************************************************)
EXTENDS Naturals, Sequences, FiniteSets, TLC

VARIABLES
    life,             \* "pre" | "mounted" | "unmounted": the component's mount phase
    isScanning,       \* useState(false)
    loading,          \* useState(true)
    permissionError,  \* useState(false)
    errorMessage,     \* useState("")
    scannerRef,       \* "null" | "scanner": scannerRef.current
    libState,         \* engine state: "NOT_STARTED" | "SCANNING"
    txn,              \* engine transition in flight: "none" | "toScanning" | "toStopped"
    startPc,          \* where startScanning is suspended: "idle" | "delay" | "enum" | "starting"
    stopAwait,        \* who holds the pending stop() promise: "none" | "handleStop" | "cleanup"
    onScanErrorSet,   \* whether the optional onScanError prop was supplied
    successCount,     \* onScanSuccess calls since the last scanner.start() (saturating)
    cleanupRaised,    \* an exception or rejection escaped the unmount cleanup
    calls,            \* the engine / prop calls issued by the last step, in order
    result,           \* App: useState<string | null>(null), line 199
    rawResult,        \* App: useState<string | null>(null), line 200
    imageUrl,         \* App: useState<string | null>(null), line 201
    prevLib,          \* engine state of the QRScanner instance mounted before this one
    prevTxn,          \* its transition in flight: "none" | "toStopped"
    prevStart,        \* a startScanning of an earlier instance is still suspended
    devices,          \* the device list getCameras() resolved with
    cameraId,         \* the id chosen on line 55 for scanner.start()
    plainText,        \* a plaintext handed to the paired encryption routine
    decrypted         \* decrypt() of its ciphertext

\* The QRScanner instance and its engine.
camVars == <<life, isScanning, loading, permissionError, errorMessage, scannerRef,
             libState, txn, startPc, stopAwait, onScanErrorSet, successCount,
             cleanupRaised, calls>>

\* The App state and the previous scanner instance.
appVars == <<result, rawResult, imageUrl, prevLib, prevTxn, prevStart>>

\* Inputs and outputs of the pure functions.
fnVars == <<devices, cameraId, plainText, decrypted>>

extVars == <<appVars, fnVars>>

vars == <<camVars, extVars>>

\* Saturation bound of successCount.
MaxSuccess == 2

----------------------------------------------------------------------------
(* Values thrown or rejected with.                                          *)

ErrObj(m) == [type |-> "Error", message |-> m]
ErrStr(m) == [type |-> "string", message |-> m]
ErrUndef  == [type |-> "undefined", message |-> ""]

\* What the environment may reject getCameras() / scanner.start() with.
EnvErrors == { ErrObj("NotAllowedError"), ErrObj(""), ErrStr("busy"), ErrStr(""), ErrUndef }

\* String(err), as used by  "..." + err .
ToStr(err) ==
    IF err.type = "undefined" THEN "undefined"
    ELSE IF err.type = "string" THEN err.message
    ELSE IF err.message = "" THEN "Error" ELSE "Error: " \o err.message

\* new Error("Could not access camera device. " + err)
WrapEnumError(err) == ErrObj("Could not access camera device. " \o ToStr(err))

NoDevicesError == ErrObj("No camera devices found.")

\* Thrown by new Html5Qrcode(id) / start() when the element is not in the document.
NoElementError == ErrStr("HTML Element with id=reader not found")

\* Thrown by the engine when start() is refused synchronously.
StartRefusedError == ErrStr("Cannot transition to a new state, already under transition")

\* err?.message || err?.toString() || "Unknown error"
ErrText(err) ==
    IF err.type = "undefined" THEN "Unknown error"
    ELSE IF err.type = "string"
         THEN (IF err.message # "" THEN err.message ELSE "Unknown error")
    ELSE IF err.message # "" THEN err.message ELSE ToStr(err)

----------------------------------------------------------------------------
(* The engine, as seen through the calls the component makes.               *)

\* scanner.isScanning
LibIsScanning(ls) == ls # "NOT_STARTED"

\* scanner.stop() throws synchronously when not scanning or under transition.
StopThrows(ls, tx) == ~LibIsScanning(ls) \/ tx # "none"

\* scanner.clear() throws while the scan is ongoing.
ClearThrows(ls) == LibIsScanning(ls)

\* scanner.start() throws synchronously: element gone, scan ongoing, or under transition.
StartThrows(lf, ls, tx) == lf # "mounted" \/ LibIsScanning(ls) \/ tx # "none"

\* An active camera binding of this instance.
CameraBound == libState = "SCANNING"

\* The reader div is displayed (line 146) and in the document.
SurfaceVisible == life = "mounted" /\ isScanning /\ ~permissionError

----------------------------------------------------------------------------
(* handleStop, lines 88-101, for a scanner ref / engine state at call time. *)

\* handleStop reaches  await scanner.stop()  and the call returns a promise.
HandleStopSuspends(ref, ls, tx) ==
    ref # "null" /\ LibIsScanning(ls) /\ ~StopThrows(ls, tx)

\* handleStop without the isScanning test of line 91.
HandleStopCallsUnguarded(ref, ls, tx) ==
    <<"handleStop">> \o (IF ref = "null" THEN <<>> ELSE <<"stop">>)

\* The calls handleStop issues before it suspends or returns.
HandleStopCalls(ref, ls, tx) ==
    <<"handleStop">> \o
    (IF ref = "null" THEN <<>>
     ELSE IF LibIsScanning(ls) THEN <<"stop">> ELSE <<"clear">>)

\* The step-local effect of one handleStop() call made with the engine in
\* state (ls, tx): either it suspends on the stop() promise, or it runs
\* through (errors swallowed by its catch) to setIsScanning/setLoading(false).
HandleStop(ref, ls, tx) ==
    IF HandleStopSuspends(ref, ls, tx)
    THEN /\ txn' = "toStopped"
         /\ stopAwait' = "handleStop"
         /\ UNCHANGED <<isScanning, loading>>
    ELSE /\ txn' = tx
         /\ stopAwait' = stopAwait
         /\ isScanning' = FALSE
         /\ loading' = FALSE

----------------------------------------------------------------------------
(* startScanning, lines 36-86.                                              *)

\* A prefix that forgets setLoading(true).
StartScanningEntryNoLoading ==
    /\ UNCHANGED loading
    /\ permissionError' = FALSE
    /\ errorMessage' = ""
    /\ isScanning' = TRUE
    /\ startPc' = "delay"
    /\ calls' = <<"startScanning">>

\* Lines 37-45: the synchronous prefix up to the settle delay.
StartScanningEntry ==
    /\ loading' = TRUE
    /\ permissionError' = FALSE
    /\ errorMessage' = ""
    /\ isScanning' = TRUE
    /\ startPc' = "delay"
    /\ calls' = <<"startScanning">>

\* A catch block that schedules another attempt by itself.
CatchAutoRetry(err, ref, ls, tx, pre) ==
    /\ permissionError' = TRUE
    /\ errorMessage' = ErrText(err)
    /\ HandleStop(ref, ls, tx)
    /\ calls' = pre \o <<"logStartError">> \o HandleStopCalls(ref, ls, tx)
    /\ startPc' = "delay"

\* A catch block that forgets handleStop().
CatchNoStop(err, ref, ls, tx, pre) ==
    /\ permissionError' = TRUE
    /\ errorMessage' = ErrText(err)
    /\ UNCHANGED <<isScanning, loading, stopAwait>>
    /\ txn' = tx
    /\ calls' = pre \o <<"logStartError">>
    /\ startPc' = "idle"

\* Lines 80-85: the catch block, entered with err after the calls in pre;
\* "logStartError" is the console.error of line 81.
Catch(err, ref, ls, tx, pre) ==
    /\ permissionError' = TRUE
    /\ errorMessage' = ErrText(err)
    /\ HandleStop(ref, ls, tx)
    /\ calls' = pre \o <<"logStartError">> \o HandleStopCalls(ref, ls, tx)
    /\ startPc' = "idle"

\* The value a synchronously refused start() throws.
StartThrown(lf, ls, tx) ==
    IF LibIsScanning(ls) THEN ErrStr("Cannot clear while scan is ongoing, close it first.")
    ELSE IF lf # "mounted" THEN ErrObj("Cannot read properties of null")
    ELSE StartRefusedError

\* Lines 17-19: mount runs the effect, which calls startScanning().
Mount ==
    /\ life = "pre"
    /\ life' = "mounted"
    /\ StartScanningEntry
    /\ UNCHANGED <<scannerRef, libState, txn, stopAwait, onScanErrorSet,
                   successCount, cleanupRaised>>
    /\ UNCHANGED extVars

\* A Retry Camera button rendered whatever the state.
RetryVisibleAlways == life = "mounted"

\* Lines 108-120: the Retry Camera button is rendered iff permissionError.
RetryVisible == life = "mounted" /\ permissionError

Retry ==
    /\ RetryVisible
    /\ StartScanningEntry
    /\ UNCHANGED <<life, scannerRef, libState, txn, stopAwait, onScanErrorSet,
                   successCount, cleanupRaised>>
    /\ UNCHANGED extVars

\* Line 45 -> 49: the 100 ms timer fires and getCameras() is called.
SettleDelayElapsed ==
    /\ startPc = "delay"
    /\ startPc' = "enum"
    /\ calls' = <<"getCameras">>
    /\ UNCHANGED <<life, isScanning, loading, permissionError, errorMessage,
                   scannerRef, libState, txn, stopAwait, onScanErrorSet,
                   successCount, cleanupRaised>>
    /\ UNCHANGED extVars

\* Lines 49-51: getCameras() rejects; the wrapped error reaches the catch.
GetCamerasRejects ==
    /\ startPc = "enum"
    /\ \E err \in EnvErrors :
          Catch(WrapEnumError(err), scannerRef, libState, txn, <<>>)
    /\ UNCHANGED <<life, scannerRef, libState, onScanErrorSet, successCount,
                   cleanupRaised>>
    /\ UNCHANGED extVars

\* Lines 53, 77-79: no devices.
GetCamerasEmpty ==
    /\ startPc = "enum"
    /\ Catch(NoDevicesError, scannerRef, libState, txn, <<>>)
    /\ UNCHANGED <<life, scannerRef, libState, onScanErrorSet, successCount,
                   cleanupRaised>>
    /\ UNCHANGED extVars

\* Lines 53-75: devices found; create the scanner if needed and call start().
GetCamerasDevices ==
    /\ startPc = "enum"
    /\ IF scannerRef = "null" /\ life # "mounted"
       THEN \* new Html5Qrcode(readerId) throws: the element is gone
            /\ Catch(NoElementError, scannerRef, libState, txn, <<>>)
            /\ UNCHANGED <<scannerRef, successCount>>
       ELSE /\ scannerRef' = "scanner"
            /\ IF StartThrows(life, libState, txn)
               THEN /\ Catch(StartThrown(life, libState, txn), "scanner",
                             libState, txn, <<"start">>)
                    /\ UNCHANGED successCount
               ELSE /\ txn' = "toScanning"
                    /\ startPc' = "starting"
                    /\ calls' = <<"start">>
                    /\ successCount' = 0
                    /\ UNCHANGED <<isScanning, loading, permissionError,
                                   errorMessage, stopAwait>>
    /\ UNCHANGED <<life, libState, onScanErrorSet, cleanupRaised>>
    /\ UNCHANGED extVars

\* A resolved start() that forgets setLoading(false).
StartResolvesKeepsLoading ==
    /\ startPc = "starting"
    /\ libState' = "SCANNING"
    /\ txn' = "none"
    /\ startPc' = "idle"
    /\ calls' = <<>>
    /\ UNCHANGED <<life, isScanning, loading, permissionError, errorMessage,
                   scannerRef, stopAwait, onScanErrorSet, successCount,
                   cleanupRaised>>
    /\ UNCHANGED extVars

\* Lines 61-76: start() resolves; the camera is bound; setLoading(false).
StartResolves ==
    /\ startPc = "starting"
    /\ libState' = "SCANNING"
    /\ txn' = "none"
    /\ loading' = FALSE
    /\ startPc' = "idle"
    /\ calls' = <<>>
    /\ UNCHANGED <<life, isScanning, permissionError, errorMessage, scannerRef,
                   stopAwait, onScanErrorSet, successCount, cleanupRaised>>
    /\ UNCHANGED extVars

\* Lines 61, 80-85: start() rejects; the engine cancels its transition.
StartRejects ==
    /\ startPc = "starting"
    /\ \E err \in EnvErrors : Catch(err, scannerRef, libState, "none", <<>>)
    /\ UNCHANGED <<life, scannerRef, libState, onScanErrorSet, successCount,
                   cleanupRaised>>
    /\ UNCHANGED extVars

----------------------------------------------------------------------------
(* User and engine events while a session exists.                           *)

\* Lines 150-171: the Stop Scanning button is rendered.
StopVisible == life = "mounted" /\ isScanning /\ ~loading /\ ~permissionError

StopClick ==
    /\ StopVisible
    /\ HandleStop(scannerRef, libState, txn)
    /\ calls' = HandleStopCalls(scannerRef, libState, txn)
    /\ UNCHANGED <<life, permissionError, errorMessage, scannerRef, libState,
                   startPc, onScanErrorSet, successCount, cleanupRaised>>
    /\ UNCHANGED extVars

Min(a, b) == IF a < b THEN a ELSE b

\* Lines 68-71: the engine delivers a decoded frame of the bound camera.
Decode ==
    /\ CameraBound
    /\ HandleStop(scannerRef, libState, txn)
    /\ calls' = HandleStopCalls(scannerRef, libState, txn) \o <<"onScanSuccess">>
    /\ successCount' = Min(successCount + 1, MaxSuccess)
    /\ UNCHANGED <<life, permissionError, errorMessage, scannerRef, libState,
                   startPc, onScanErrorSet, cleanupRaised>>
    /\ UNCHANGED extVars

\* An error callback that ends the session as the success callback does.
FrameErrorStops ==
    /\ CameraBound
    /\ HandleStop(scannerRef, libState, txn)
    /\ calls' = <<"qrCodeErrorCallback">> \o
                HandleStopCalls(scannerRef, libState, txn) \o
                (IF onScanErrorSet THEN <<"onScanError">> ELSE <<>>)
    /\ UNCHANGED <<life, permissionError, errorMessage, scannerRef, libState,
                   startPc, onScanErrorSet, successCount, cleanupRaised>>
    /\ UNCHANGED extVars

\* Lines 72-74: the engine reports a frame without a code.
FrameError ==
    /\ CameraBound
    /\ calls' = <<"qrCodeErrorCallback">> \o
                (IF onScanErrorSet THEN <<"onScanError">> ELSE <<>>)
    /\ UNCHANGED <<life, isScanning, loading, permissionError, errorMessage,
                   scannerRef, libState, txn, startPc, stopAwait,
                   onScanErrorSet, successCount, cleanupRaised>>
    /\ UNCHANGED extVars

\* A handleStop that skips clear() after the awaited stop().
StopResolvesNoClear ==
    /\ stopAwait # "none"
    /\ libState' = "NOT_STARTED"
    /\ txn' = "none"
    /\ stopAwait' = "none"
    /\ calls' = <<>>
    /\ IF stopAwait = "handleStop"
       THEN isScanning' = FALSE /\ loading' = FALSE
       ELSE UNCHANGED <<isScanning, loading>>
    /\ UNCHANGED <<life, permissionError, errorMessage, scannerRef, startPc,
                   onScanErrorSet, successCount, cleanupRaised>>
    /\ UNCHANGED extVars

\* Lines 92-100: the awaited stop() resolves; the camera is released.
StopResolves ==
    /\ stopAwait # "none"
    /\ libState' = "NOT_STARTED"
    /\ txn' = "none"
    /\ stopAwait' = "none"
    /\ IF stopAwait = "handleStop"
       THEN /\ calls' = <<"clear">>
            /\ isScanning' = FALSE
            /\ loading' = FALSE
       ELSE /\ calls' = <<>>
            /\ UNCHANGED <<isScanning, loading>>
    /\ UNCHANGED <<life, permissionError, errorMessage, scannerRef, startPc,
                   onScanErrorSet, successCount, cleanupRaised>>
    /\ UNCHANGED extVars

\* .catch(console.error) on line 26 handles a rejected stop().
CleanupRejectionEscapes == FALSE

\* Lines 92-100 / 26: the awaited stop() rejects; the engine stays as it was.
StopRejects ==
    /\ stopAwait # "none"
    /\ stopAwait' = "none"
    /\ calls' = <<>>
    /\ IF stopAwait = "handleStop"
       THEN /\ isScanning' = FALSE
            /\ loading' = FALSE
            /\ UNCHANGED cleanupRaised
       ELSE /\ cleanupRaised' = (cleanupRaised \/ CleanupRejectionEscapes)
            /\ UNCHANGED <<isScanning, loading>>
    /\ UNCHANGED <<life, permissionError, errorMessage, scannerRef, libState,
                   txn, startPc, onScanErrorSet, successCount>>
    /\ UNCHANGED extVars

----------------------------------------------------------------------------
(* Unmount cleanup, lines 22-33.                                            *)

\* stop() or clear() throws inside the try block.
CleanupThrows(ref, ls, tx) ==
    /\ ref # "null"
    /\ \/ LibIsScanning(ls) /\ StopThrows(ls, tx)
       \/ ClearThrows(ls)

\* The cleanup body without its try/catch.
CleanupEscapesNoTry(thrown) == thrown

\* try { ... } catch (e) { console.error(...) }: nothing thrown inside escapes.
CleanupEscapes(thrown) == FALSE

CleanupCalls(ref, ls, tx) ==
    IF ref = "null" THEN <<>>
    ELSE IF ~LibIsScanning(ls) THEN <<"clear">>
    ELSE IF StopThrows(ls, tx) THEN <<"stop">>
    ELSE <<"stop", "clear">>

Unmount ==
    /\ life = "mounted"
    /\ life' = "unmounted"
    /\ calls' = CleanupCalls(scannerRef, libState, txn)
    /\ IF scannerRef # "null" /\ LibIsScanning(libState) /\ ~StopThrows(libState, txn)
       THEN txn' = "toStopped" /\ stopAwait' = "cleanup"
       ELSE UNCHANGED <<txn, stopAwait>>
    /\ cleanupRaised' =
          (cleanupRaised \/ CleanupEscapes(CleanupThrows(scannerRef, libState, txn)))
    /\ UNCHANGED <<isScanning, loading, permissionError, errorMessage,
                   scannerRef, libState, startPc, onScanErrorSet, successCount>>
    /\ UNCHANGED extVars

----------------------------------------------------------------------------

(* Strings of the App: a text is a sequence of one-character strings; a     *)
(* string | null cell is a record.                                          *)

Null == [isNull |-> TRUE, text |-> <<>>]
Some(t) == [isNull |-> FALSE, text |-> t]

\* The characters texts are built from.
Chars == {"x", ",", " ", "7"}

\* Longest decoded text and longest plaintext that are enumerated.
MaxTextLen == 3
MaxPlainLen == 3

RECURSIVE TextsOfLen(_)
TextsOfLen(n) ==
    IF n = 0 THEN { <<>> }
    ELSE { Append(t, c) : t \in TextsOfLen(n - 1), c \in Chars }

TextsUpTo(n) == UNION { TextsOfLen(k) : k \in 0..n }

----------------------------------------------------------------------------
(* decrypt, lines 181-192.  AES-CBC with the fixed key and the zero IV is   *)
(* replaced by a small cipher of the same shape: PKCS7 padding to whole     *)
(* blocks, a keyed permutation of each character chained on the previous    *)
(* ciphertext character, the chain starting from the zero IV.               *)

Code == [c \in Chars |-> CASE c = "x" -> 0 [] c = "," -> 1 [] c = " " -> 2 [] c = "7" -> 3]
Chr(n) == CHOOSE c \in Chars : Code[c] = n
NChars == Cardinality(Chars)

\* Characters per cipher block.
BlockLen == 2

\* The keyed permutation and its inverse (key 'Y0rkn0v3lty!@#$%', line 183).
KeyPerm(v) == (3 * v + 1) % NChars
KeyPermInv(w) == (3 * (w + NChars - 1)) % NChars

\* The zero IV of line 184.
IV == 0

\* PKCS7: append n copies of the character coded n, 1 <= n <= BlockLen.
Pad(t) ==
    LET n == BlockLen - (Len(t) % BlockLen)
    IN  t \o [i \in 1..n |-> Chr(n)]

RECURSIVE CbcEncrypt(_, _)
CbcEncrypt(t, prev) ==
    IF t = <<>> THEN <<>>
    ELSE LET c == KeyPerm((Code[Head(t)] + prev) % NChars)
         IN  <<Chr(c)>> \o CbcEncrypt(Tail(t), c)

RECURSIVE CbcDecrypt(_, _)
CbcDecrypt(c, prev) ==
    IF c = <<>> THEN <<>>
    ELSE LET v == (KeyPermInv(Code[Head(c)]) + NChars - prev) % NChars
         IN  <<Chr(v)>> \o CbcDecrypt(Tail(c), Code[Head(c)])

\* The paired encryption routine: pad, then encrypt under the key and IV.
Encrypt(x) == CbcEncrypt(Pad(x), IV)

\* CryptoJS.AES.decrypt(...).toString(Utf8), line 185 and 187: whole blocks
\* only; the last character says how many characters to drop (unchecked);
\* anything else yields the empty string.
AesDecrypt(c) ==
    IF Len(c) = 0 \/ Len(c) % BlockLen # 0 THEN <<>>
    ELSE LET p == CbcDecrypt(c, IV)
             n == Code[p[Len(p)]]
         IN  IF n > Len(p) THEN <<>> ELSE SubSeq(p, 1, Len(p) - n)

\* A decrypt that returns its argument whenever the argument is non-empty.
decryptOperandsSwapped(encryptString) ==
    IF encryptString # <<>> THEN encryptString ELSE AesDecrypt(encryptString)

\* Lines 181-192:  decrypted.toString(Utf8) || encryptString
decrypt(encryptString) ==
    IF AesDecrypt(encryptString) # <<>> THEN AesDecrypt(encryptString)
    ELSE encryptString

----------------------------------------------------------------------------
(* handleScan and handleReset, lines 203-238.                               *)

\* decryptedText.includes(',')
IncludesComma(t) == \E i \in DOMAIN t : t[i] = ","

\* decryptedText.split(',')[0]
RECURSIVE SplitFirst(_)
SplitFirst(t) ==
    IF t = <<>> \/ Head(t) = "," THEN <<>>
    ELSE <<Head(t)>> \o SplitFirst(Tail(t))

\* String.prototype.trim
RECURSIVE TrimStart(_)
TrimStart(t) == IF t # <<>> /\ Head(t) = " " THEN TrimStart(Tail(t)) ELSE t

RECURSIVE TrimEnd(_)
TrimEnd(t) ==
    IF t # <<>> /\ t[Len(t)] = " " THEN TrimEnd(SubSeq(t, 1, Len(t) - 1)) ELSE t

Trim(t) == TrimEnd(TrimStart(t))

\* `https://yorkapi.blob.core.windows.net/yorkimages/${id}.jpg`
ImageUrlOf(id) ==
    <<"https://yorkapi.blob.core.windows.net/yorkimages/">> \o id \o <<".jpg">>

\* Lines 210-228: both branches take the trimmed first part and call
\* setImageUrl only when it is non-empty.
RoutedId(decryptedText) ==
    IF decryptedText # <<>> /\ IncludesComma(decryptedText)
    THEN Trim(SplitFirst(decryptedText))
    ELSE Trim(SplitFirst(decryptedText))

\* Lines 203-232.
HandleScan(decodedText) ==
    /\ rawResult' = Some(decodedText)
    /\ result' = Some(decrypt(decodedText))
    /\ imageUrl' = IF RoutedId(decrypt(decodedText)) # <<>>
                   THEN Some(ImageUrlOf(RoutedId(decrypt(decodedText))))
                   ELSE imageUrl

\* Lines 234-238.
HandleResetCells ==
    /\ result' = Null
    /\ rawResult' = Null
    /\ imageUrl' = Null

\* !result on line 255: null and the empty string are falsy.
ResultShown == ~result.isNull /\ result.text # <<>>

----------------------------------------------------------------------------
(* Default camera choice, line 55.                                          *)

\* The labels and ids devices are built from; ids of enumerated cameras are
\* non-empty once getCameras() has resolved.
Labels == { <<"B", "A", "C", "K">>, <<"b", "a", "c", "k">>, <<"f", "r", "o", "n", "t">>,
            <<"a", "B", "a", "c", "K", "s">>, <<"b", "a", "c">>, <<>> }
DeviceIds == {"a", "b", "c"}
Devices == [id : DeviceIds, label : Labels]

\* Longest device list that is enumerated.
MaxDevices == 2

DeviceLists == UNION { [1..n -> Devices] : n \in 1..MaxDevices }

\* String.prototype.toLowerCase, one character.
LowerChar(c) ==
    CASE c = "B" -> "b" [] c = "A" -> "a" [] c = "C" -> "c" [] c = "K" -> "k"
      [] OTHER -> c

ToLowerCase(t) == [i \in DOMAIN t |-> LowerChar(t[i])]

\* String.prototype.includes
Includes(t, needle) ==
    \E i \in 0..Len(t) :
        /\ i + Len(needle) <= Len(t)
        /\ \A k \in DOMAIN needle : t[i + k] = needle[k]

LabelMatchesBack(d) == Includes(ToLowerCase(d.label), <<"b", "a", "c", "k">>)

\* devices.find(...) : the index of the first match, 0 when there is none.
FindBack(devs) ==
    IF \E i \in DOMAIN devs : LabelMatchesBack(devs[i])
    THEN CHOOSE i \in DOMAIN devs :
            /\ LabelMatchesBack(devs[i])
            /\ \A j \in 1..(i - 1) : ~LabelMatchesBack(devs[j])
    ELSE 0

\* A choice that compares the label without lowering it.
DefaultCameraIdCaseSensitive(devs) ==
    IF \E i \in DOMAIN devs : Includes(devs[i].label, <<"b", "a", "c", "k">>)
    THEN devs[CHOOSE i \in DOMAIN devs :
                 /\ Includes(devs[i].label, <<"b", "a", "c", "k">>)
                 /\ \A j \in 1..(i - 1) : ~Includes(devs[j].label, <<"b", "a", "c", "k">>)].id
    ELSE devs[1].id

\* devices.find(d => d.label.toLowerCase().includes('back'))?.id || devices[0].id
DefaultCameraId(devs) ==
    IF FindBack(devs) # 0 /\ devs[FindBack(devs)].id # ""
    THEN devs[FindBack(devs)].id
    ELSE devs[1].id

----------------------------------------------------------------------------

CamInit ==
    /\ life = "pre"
    /\ isScanning = FALSE
    /\ loading = TRUE
    /\ permissionError = FALSE
    /\ errorMessage = ""
    /\ scannerRef = "null"
    /\ libState = "NOT_STARTED"
    /\ txn = "none"
    /\ startPc = "idle"
    /\ stopAwait = "none"
    /\ onScanErrorSet \in BOOLEAN
    /\ successCount = 0
    /\ cleanupRaised = FALSE
    /\ calls = <<>>

\* App cells before the first scan; no earlier scanner instance.
AppInit ==
    /\ result = Null
    /\ rawResult = Null
    /\ imageUrl = Null
    /\ prevLib = "NOT_STARTED"
    /\ prevTxn = "none"
    /\ prevStart = FALSE

\* The pure functions are not exercised.
FnIdle ==
    /\ devices = <<>>
    /\ cameraId = ""
    /\ plainText = <<>>
    /\ decrypted = Null

Init == CamInit /\ AppInit /\ FnIdle

Next ==
    \/ Mount
    \/ Retry
    \/ SettleDelayElapsed
    \/ GetCamerasRejects
    \/ GetCamerasEmpty
    \/ GetCamerasDevices
    \/ StartResolves
    \/ StartRejects
    \/ StopClick
    \/ Decode
    \/ FrameError
    \/ StopResolves
    \/ StopRejects
    \/ Unmount

Spec == Init /\ [][Next]_vars

\* The timer of line 45 fires, and each of getCameras(), scanner.start() and
\* scanner.stop() eventually resolves or rejects.
FairSpec ==
    /\ Spec
    /\ WF_vars(SettleDelayElapsed)
    /\ WF_vars(GetCamerasRejects \/ GetCamerasEmpty \/ GetCamerasDevices)
    /\ WF_vars(StartResolves \/ StartRejects)
    /\ WF_vars(StopResolves \/ StopRejects)

----------------------------------------------------------------------------
(* The default camera choice on its own: every device list, then line 55.   *)

SelectInit ==
    /\ CamInit /\ AppInit
    /\ devices \in DeviceLists
    /\ cameraId = ""
    /\ plainText = <<>>
    /\ decrypted = Null

\* Line 55, for the list getCameras() resolved with.
ChooseCamera ==
    /\ cameraId = ""
    /\ cameraId' = DefaultCameraId(devices)
    /\ UNCHANGED <<camVars, appVars, devices, plainText, decrypted>>

SelectSpec == SelectInit /\ [][ChooseCamera]_vars

----------------------------------------------------------------------------
(* decrypt on its own: every plaintext, encrypted by the paired routine.    *)

CryptInit ==
    /\ CamInit /\ AppInit
    /\ devices = <<>>
    /\ cameraId = ""
    /\ plainText \in TextsUpTo(MaxPlainLen)
    /\ decrypted = Null

\* decrypt(encrypt(x)), lines 181-192.
RoundTrip ==
    /\ decrypted.isNull
    /\ decrypted' = Some(decrypt(Encrypt(plainText)))
    /\ UNCHANGED <<camVars, appVars, devices, cameraId, plainText>>

CryptSpec == CryptInit /\ [][RoundTrip]_vars

----------------------------------------------------------------------------
(* The App cells on their own: handleScan on every decoded text, and        *)
(* handleReset from the result view.                                        *)

\* Line 256: onScanSuccess={handleScan}, called with a decoded text.
ScanText ==
    /\ \E t \in TextsUpTo(MaxTextLen) : HandleScan(t)
    /\ UNCHANGED <<camVars, prevLib, prevTxn, prevStart, fnVars>>

\* Lines 331-333: Scan Again, rendered in the result view only.
ResetView ==
    /\ ResultShown
    /\ HandleResetCells
    /\ UNCHANGED <<camVars, prevLib, prevTxn, prevStart, fnVars>>

RouteNext ==
    \/ ScanText
    \/ ResetView

RouteSpec == Init /\ [][RouteNext]_vars

----------------------------------------------------------------------------
(* The App as the parent of QRScanner, lines 198-257: a decode reaches      *)
(* handleScan, a truthy result replaces the scanner by the result view, and *)
(* Scan Again mounts a new QRScanner instance while whatever the old        *)
(* instance's engine still holds lives on in prevLib / prevTxn.             *)

\* The decoded texts the engine delivers here.
AppTexts == { <<>>, <<"7">>, <<",", "x">> }

\* Lines 68-71 with onScanSuccess = handleScan (line 256).
AppDecode ==
    /\ CameraBound
    /\ HandleStop(scannerRef, libState, txn)
    /\ calls' = HandleStopCalls(scannerRef, libState, txn) \o <<"onScanSuccess">>
    /\ successCount' = Min(successCount + 1, MaxSuccess)
    /\ \E t \in AppTexts : HandleScan(t)
    /\ UNCHANGED <<life, permissionError, errorMessage, scannerRef, libState,
                   startPc, onScanErrorSet, cleanupRaised>>
    /\ UNCHANGED <<prevLib, prevTxn, prevStart, fnVars>>

\* Line 255: with a truthy result the QRScanner is unmounted.
AppUnmount ==
    /\ ResultShown
    /\ Unmount

\* Lines 331-333, 255-256 and 17-19: Scan Again resets the cells, a new
\* QRScanner instance mounts with fresh state and starts scanning; the old
\* instance's engine keeps its binding and its stop in flight.
ScanAgain ==
    /\ ResultShown
    /\ life = "unmounted"
    /\ HandleResetCells
    /\ life' = "mounted"
    /\ StartScanningEntry
    /\ scannerRef' = "null"
    /\ libState' = "NOT_STARTED"
    /\ txn' = "none"
    /\ stopAwait' = "none"
    /\ successCount' = 0
    /\ prevLib' = IF CameraBound THEN libState ELSE prevLib
    /\ prevTxn' = IF CameraBound THEN txn ELSE prevTxn
    /\ prevStart' = (prevStart \/ startPc # "idle")
    /\ UNCHANGED <<onScanErrorSet, cleanupRaised, fnVars>>

\* The old instance's stop() resolves: its camera is released.
PrevStopResolves ==
    /\ prevTxn = "toStopped"
    /\ prevLib' = "NOT_STARTED"
    /\ prevTxn' = "none"
    /\ UNCHANGED <<camVars, result, rawResult, imageUrl, prevStart, fnVars>>

\* Lines 45-85 in an old instance whose startScanning was suspended when it
\* was replaced: the reader id exists again, so its start() may bind the
\* camera, or the attempt ends in its catch block.
PrevStartSettles ==
    /\ prevStart
    /\ prevStart' = FALSE
    /\ \/ prevLib' = "SCANNING" /\ prevTxn' = "none"
       \/ UNCHANGED <<prevLib, prevTxn>>
    /\ UNCHANGED <<camVars, result, rawResult, imageUrl, fnVars>>

\* Lines 68-71 in the old instance, still bound: its handleStop() issues
\* stop() unless one is in flight, and onScanSuccess reaches handleScan.
PrevDecode ==
    /\ prevLib = "SCANNING"
    /\ prevTxn' = "toStopped"
    /\ \E t \in AppTexts : HandleScan(t)
    /\ UNCHANGED <<camVars, prevLib, prevStart, fnVars>>

AppNext ==
    \/ Mount
    \/ Retry
    \/ SettleDelayElapsed
    \/ GetCamerasRejects
    \/ GetCamerasEmpty
    \/ GetCamerasDevices
    \/ StartResolves
    \/ StartRejects
    \/ StopClick
    \/ AppDecode
    \/ FrameError
    \/ StopResolves
    \/ StopRejects
    \/ AppUnmount
    \/ ScanAgain
    \/ PrevStopResolves
    \/ PrevStartSettles
    \/ PrevDecode

AppSpec == Init /\ [][AppNext]_vars

TypeOK ==
    /\ life \in {"pre", "mounted", "unmounted"}
    /\ isScanning \in BOOLEAN /\ loading \in BOOLEAN /\ permissionError \in BOOLEAN
    /\ scannerRef \in {"null", "scanner"}
    /\ libState \in {"NOT_STARTED", "SCANNING"}
    /\ txn \in {"none", "toScanning", "toStopped"}
    /\ startPc \in {"idle", "delay", "enum", "starting"}
    /\ stopAwait \in {"none", "handleStop", "cleanup"}
    /\ successCount \in 0..MaxSuccess
    /\ cleanupRaised \in BOOLEAN

\* The single startPc suffices: startScanning is never entered while a
\* previous call is still suspended.
OneStartTask == RetryVisible => startPc = "idle"

\* The pending stop() promise and the engine's stop transition go together.
StopPromiseShape ==
    /\ (stopAwait # "none") => (txn = "toStopped" /\ libState = "SCANNING")
    /\ (txn = "toScanning") <=> (startPc = "starting")

----------------------------------------------------------------------------
(* Properties.                                                              *)

\* The last step issued call c.
Called(c) == \E i \in DOMAIN calls : calls[i] = c

\* The step being taken issues call c.
Issues(c) == \E i \in DOMAIN calls' : calls'[i] = c

\* C1: after teardown, once no start and no stop is pending any more, the
\* camera binding has been released.
C1_ReleasedAfterTeardown ==
    (life = "unmounted" /\ startPc = "idle" /\ txn = "none") => ~CameraBound

\* C2: scanner.start() is only invoked when no camera binding of the
\* instance is active and none is being started or stopped, so at most one
\* binding exists.
C2_StartOnlyWhenReleased ==
    [][Issues("start") => (~CameraBound /\ txn = "none")]_vars

C2_Witness == calls = <<"start">> /\ txn = "toScanning" /\ life = "mounted"

\* C3: within one session (since the last scanner.start()) onScanSuccess is
\* invoked at most once.
C3_SingleSuccessPerSession == successCount <= 1

\* C4: scanner.start() and scanner.stop() are only issued while no earlier
\* start or stop of the engine is still unsettled.
C4_NoOverlappingOps ==
    [][(Issues("start") \/ Issues("stop")) => txn = "none"]_vars

\* C5: handleStop called with no scanner, or with a scanner that is not
\* scanning, does not call stop(), hits no throwing call, and ends with
\* isScanning = false and loading = false.
C5_StopIdempotent ==
    [][(Issues("handleStop") /\ (scannerRef = "null" \/ ~LibIsScanning(libState)))
          => /\ ~Issues("stop")
             /\ (Issues("clear") => ~ClearThrows(libState))
             /\ ~isScanning' /\ ~loading'
             /\ UNCHANGED <<libState, stopAwait>>]_vars

C5_Witness ==
    /\ Called("handleStop") /\ Called("clear")
    /\ scannerRef = "scanner" /\ ~isScanning /\ ~loading

\* C6: scanner.start() is only invoked while the scanning surface is
\* mounted and displayed, and was so before the step that invokes it.
C6_VisibleBeforeStart ==
    [][Issues("start") => SurfaceVisible]_vars

\* The session fields shown to the user.
sessionVars == <<isScanning, loading, permissionError, errorMessage>>

\* C7: in the Error state of a mounted component no step calls getCameras()
\* or scanner.start(), and only a step that enters startScanning (Retry)
\* changes the session.
C7_NoAutomaticRetry ==
    [][(life = "mounted" /\ permissionError)
          => /\ ~Issues("getCameras")
             /\ ~Issues("start")
             /\ (life' = "mounted" /\ ~Issues("startScanning"))
                   => UNCHANGED sessionVars]_vars

C7_Witness ==
    /\ calls = <<"startScanning">> /\ scannerRef = "scanner"
    /\ life = "mounted" /\ ~permissionError

\* The messages of the enumeration-failure and zero-device cases.
EnumFailureMessages ==
    { ErrText(WrapEnumError(e)) : e \in EnvErrors } \cup { ErrText(NoDevicesError) }

\* C8: a step in which a start attempt fails ends with permissionError, a
\* non-empty message, isScanning = false, loading = false and no camera
\* binding; when the failure is an enumeration failure or an empty device
\* list, start() was not called in this attempt.
C8_FailedStartEndsInError ==
    [][Issues("logStartError")
          => /\ permissionError' /\ errorMessage' # ""
             /\ ~isScanning' /\ ~loading'
             /\ libState' = "NOT_STARTED" /\ txn' = "none"
             /\ startPc' = "idle"
             /\ (errorMessage' \in EnumFailureMessages
                    => (~Issues("start") /\ startPc = "enum"))]_vars

C8_Witness ==
    /\ Called("logStartError") /\ permissionError
    /\ errorMessage = "Unknown error" /\ life = "mounted"

\* C9: a frame-error callback leaves the session fields and the camera
\* binding unchanged; onScanError is called exactly when it was supplied.
C9_FrameErrorHarmless ==
    [][Issues("qrCodeErrorCallback")
          => /\ UNCHANGED <<sessionVars, libState, txn, stopAwait, startPc,
                            scannerRef, life>>
             /\ ~Issues("handleStop") /\ ~Issues("stop")
             /\ (Issues("onScanError") <=> onScanErrorSet)]_vars

C9_Witness ==
    /\ calls = <<"qrCodeErrorCallback", "onScanError">>
    /\ CameraBound /\ isScanning /\ ~loading

\* C10: no exception and no unhandled rejection ever escapes the unmount
\* cleanup.
C10_TeardownNeverRaises == ~cleanupRaised

\* Cleanup ran while a stop issued by handleStop was in flight: its own
\* stop() threw synchronously (double stop).
C10_Witness ==
    /\ life = "unmounted" /\ calls = <<"stop">>
    /\ txn = "toStopped" /\ stopAwait = "handleStop"

\* A label contains "back" in any mix of cases.
ContainsBackAnyCase(label) ==
    \E o \in 0..Len(label) :
        /\ o + 4 <= Len(label)
        /\ label[o + 1] \in {"b", "B"} /\ label[o + 2] \in {"a", "A"}
        /\ label[o + 3] \in {"c", "C"} /\ label[o + 4] \in {"k", "K"}

\* C11: the chosen id is the id of the first device whose label contains
\* "back" case-insensitively, and the id of the first device when no label
\* does.
C11_DefaultDevice ==
    cameraId # "" =>
        IF \E i \in DOMAIN devices : ContainsBackAnyCase(devices[i].label)
        THEN \E i \in DOMAIN devices :
                /\ ContainsBackAnyCase(devices[i].label)
                /\ \A j \in 1..(i - 1) : ~ContainsBackAnyCase(devices[j].label)
                /\ cameraId = devices[i].id
        ELSE cameraId = devices[1].id

C11_Witness ==
    /\ Len(devices) = 2
    /\ devices[1].label = <<"f", "r", "o", "n", "t">>
    /\ devices[2].label = <<"B", "A", "C", "K">>
    /\ devices[1].id = "a" /\ devices[2].id = "b"
    /\ cameraId = "b"

\* C13: decrypt applied to the ciphertext of any plaintext, the empty one
\* included, returns that plaintext.
C13_RoundTrip == ~decrypted.isNull => decrypted.text = plainText

\* C13 (amended): decrypt applied to the ciphertext of any non-empty
\* plaintext returns that plaintext.
C13_RoundTripNonEmpty ==
    (~decrypted.isNull /\ plainText # <<>>) => decrypted.text = plainText

C13_Witness ==
    /\ ~decrypted.isNull /\ Len(plainText) >= 2
    /\ decrypted.text = plainText

\* The part of a text before its first comma (all of it without a comma).
FirstPart(t) ==
    IF \E i \in DOMAIN t : t[i] = ","
    THEN SubSeq(t, 1, (CHOOSE i \in DOMAIN t :
                          t[i] = "," /\ \A j \in 1..(i - 1) : t[j] # ",") - 1)
    ELSE t

\* id is p without its leading and trailing spaces.
IsTrimOf(id, p) ==
    \E a, b \in 0..Len(p) :
        /\ a + b <= Len(p)
        /\ id = SubSeq(p, a + 1, Len(p) - b)
        /\ \A i \in 1..a : p[i] = " "
        /\ \A i \in (Len(p) - b + 1)..Len(p) : p[i] = " "
        /\ id # <<>> => (id[1] # " " /\ id[Len(id)] # " ")

\* The image URL a decrypted text calls for.
ExpectedImage(t) ==
    LET p  == FirstPart(t)
        id == CHOOSE x \in { SubSeq(p, i, j) : i \in 1..(Len(p) + 1), j \in 0..Len(p) } :
                  IsTrimOf(x, p)
    IN  IF id # <<>> THEN Some(ImageUrlOf(id)) ELSE Null

\* C12: after handleScan, the image URL is the template filled with the
\* trimmed text before the first comma of the decrypted text when that id
\* is non-empty, and null when it is empty.
C12_Routing ==
    [][~result'.isNull => imageUrl' = ExpectedImage(result'.text)]_vars

\* The routing of a scan made from the reset view.
RoutingFromReset ==
    [][(imageUrl.isNull /\ ~result'.isNull)
          => imageUrl' = ExpectedImage(result'.text)]_vars

\* C17: the image URL is null when there is no result, and otherwise is
\* exactly the URL the current result calls for.
C17_ImageMatchesResult ==
    IF result.isNull THEN imageUrl.isNull
    ELSE imageUrl = ExpectedImage(result.text)

\* The engine's stop() rejected: its transition was never completed.
StopFailed == txn = "toStopped" /\ stopAwait = "none"

C15_ExclusiveCamera == ~(CameraBound /\ prevLib = "SCANNING")

\* C16: whenever the camera is bound, the UI state says scanning and shows
\* no error.
C16_BoundImpliesScanning == CameraBound => (isScanning /\ ~permissionError)

\* C18: a mounted scanner with no camera operation in flight and no active
\* session offers a control that starts a session.
C18_RestartOffered ==
    (life = "mounted" /\ startPc = "idle" /\ txn = "none" /\ ~CameraBound)
        => RetryVisible

\* C19: while startScanning is suspended, neither the Retry Camera nor the
\* Stop Scanning control is rendered.
C19_NoControlsWhileStarting ==
    startPc # "idle" => (~RetryVisible /\ ~StopVisible)

\* A retry attempt of a mounted scanner is in flight.
C19_Witness ==
    /\ startPc = "starting" /\ life = "mounted"
    /\ Called("start") /\ loading /\ isScanning

\* C20: every start attempt eventually ends with loading = false and the
\* session Active or in Error.
C20_StartSettles ==
    (startPc # "idle")
        ~> (startPc = "idle" /\ ~loading /\ (CameraBound \/ permissionError))

C20_Witness ==
    /\ startPc = "idle" /\ ~loading /\ permissionError
    /\ Called("logStartError") /\ scannerRef = "scanner"

====
